---- MODULE Spec2Model ----
(***************************************************************************)
(* RawRead (rawread.py): the Device class over one medium.                 *)
(*                                                                         *)
(* The medium is a sequence of bytes (0..255) behind one file handle.      *)
(* A state is the medium, the handle (position, permissions), the fields   *)
(* of the current Device instance, and a record of the most recent call.   *)
(* Every public method of Device is one action that runs the whole method. *)
(* The command-line program main is a sequential process over the same     *)
(* medium: its position and its options are the variable main, and each of *)
(* its steps runs one Device method.                                       *)
(*                                                                         *)
(* I/O model.  A handle.write call reaches the medium before it returns    *)
(* (no stdio buffering).  A write raises IOError when the handle is        *)
(* read-only, when it runs past the capacity of the medium, or when it     *)
(* touches a sector of badWrite; a read raises IOError when it touches a   *)
(* sector of badRead.  Capacity and bad sectors are fixed properties of    *)
(* the medium: they do not change during a behaviour, so the same read or  *)
(* write on the same medium always has the same outcome.                   *)
(***************************************************************************)
EXTENDS Integers, Sequences, FiniteSets, TLC

\* ------------------------------------------------------------- constants

NOFS_SIGNATURE == <<107, 54, 50, 49, 46, 100, 101>>     \* "k621.de"

NOFS_HEADER == NOFS_SIGNATURE \o <<0, 0, 0, 0>>

NOFS_TERMINAL == 3

NOFS_SECTOR_SIZE == 512

FILL == 255

NUL == 0

\* sectors_read before any get_contents call (Python's None)
None == -2

\* ---------------------------------------------------------------- bounds

\* the largest capacity of a medium, in sectors
MaxSectors == 5

\* the longest short payload / trailing piece enumerated byte by byte
MaxPiece == 1

\* ------------------------------------------------------- byte sequences

Min(a, b) == IF a <= b THEN a ELSE b

Max(a, b) == IF a >= b THEN a ELSE b

\* n copies of the byte b, as Python's n * chr(b)
Rep(b, n) == [i \in 1..n |-> b] \o <<>>

\* Python's s[from:to] for 0 <= from <= to
Slice(s, from, to) == SubSeq(s, from + 1, Min(to, Len(s)))

\* the element of a one-element set: { e(x) : x \in {v} } names v once in e
Val(S) == CHOOSE x \in S : TRUE

\* Python's "b in s" for one byte
In(b, s) == \E i \in 1..Len(s) : s[i] = b

\* Python's s.find(b) for one byte that occurs in s: 0-based first index
Find(s, b) ==
    (CHOOSE i \in 1..Len(s) : s[i] = b /\ \A j \in 1..(i - 1) : s[j] # b) - 1

\* ------------------------------------------------------------- variables

VARIABLES
    medium,           \* the bytes of the device or file
    cap,              \* capacity of the medium in bytes (writes past it fail)
    badRead,          \* the sectors whose reads raise IOError
    badWrite,         \* the sectors whose writes raise IOError
    permissions,      \* "rb" or "rb+": the mode _device_handle was opened with
    pos,              \* position of _device_handle
    valid_nofs,       \* Device.valid_nofs
    force_operations, \* Device._force_operations
    sectors_read,     \* Device.sectors_read (None or a count)
    seen,             \* the latest get_contents outcome of this instance
    last,             \* the most recent call: arguments, outcome, effects
    main              \* the run of main(): its position and its options

vars == <<medium, cap, badRead, badWrite, permissions, pos, valid_nofs,
          force_operations, sectors_read, seen, last, main>>

\* ------------------------------------------------------------ handle I/O

\* the byte range [from, to) overlaps a sector of the set bad
Touches(bad, from, to) ==
    /\ from < to
    /\ \E b \in bad : /\ from < (b + 1) * NOFS_SECTOR_SIZE
                      /\ to > b * NOFS_SECTOR_SIZE

\* file.read(n) at position p: the bytes returned (short at end of medium)
ReadData(m, p, n) == Slice(m, p, p + n)

\* the read touches a bad sector: IOError
ReadFails(m, p, n) == Touches(badRead, p, Min(p + n, Len(m)))

\* first offset at or after p that a write cannot reach
WriteLimit(p) ==
    IF permissions # "rb+" THEN p
    ELSE LET ahead == {b * NOFS_SECTOR_SIZE : b \in
                          {x \in badWrite : p < (x + 1) * NOFS_SECTOR_SIZE}}
                        \cup {cap}
             first == CHOOSE a \in ahead : \A o \in ahead : a <= o
         IN Max(p, first)

\* file.write(data) at position p: the medium afterwards, whether the whole
\* of data was written (otherwise IOError is raised), the position afterwards
Write(m, p, data) ==
    LET n == Min(Len(data), WriteLimit(p) - p) IN
    [m  |-> IF n = 0 THEN m
            ELSE Slice(m, 0, p) \o Rep(NUL, p - Len(m))
                    \o Slice(data, 0, n) \o Slice(m, p + n, Len(m)),
     ok |-> n = Len(data),
     p  |-> p + n]

\* -------------------------------------------------------- Device methods

\* a probe that never finds the signature
DetectNofsNever(m) == FALSE

\* __init__: the signature probe, read(len(NOFS_SIGNATURE)) at offset 0
DetectNofs(m) == ReadData(m, 0, Len(NOFS_SIGNATURE)) = NOFS_SIGNATURE

\* a get_contents that does not rewind: it scans on from where the handle is
GcSeekStay(p) == p

\* get_contents: where the scan of a call entered at position p starts
GcSeek(p) == 0

\* get_contents: the bytes read and dropped on a valid NoFS before scanning
HeaderSkip == Len(NOFS_HEADER)

\* get_contents: the byte that ends the content
Terminal(valid) == IF valid THEN NOFS_TERMINAL ELSE NUL

\* get_contents: the loop "while not eof", entered at position p with the
\* content collected so far and the sectors counted so far
RECURSIVE GcLoop(_, _, _, _, _)
GcLoop(m, p, terminal, result, sr) ==
    IF ReadFails(m, p, NOFS_SECTOR_SIZE)
    THEN [ret |-> result, sr |-> sr, p |-> p, raised |-> FALSE]
    ELSE Val({
         LET eof  == Len(sector) # NOFS_SECTOR_SIZE \/ hit
             kept == IF hit THEN Slice(sector, 0, Find(sector, terminal))
                            ELSE sector
         IN IF eof
            THEN [ret |-> result \o kept, sr |-> sr + 1,
                  p |-> p + Len(sector), raised |-> FALSE]
            ELSE GcLoop(m, p + Len(sector), terminal, result \o kept, sr + 1)
         : <<sector, hit>> \in
              {<<x, In(terminal, x)>> : x \in {ReadData(m, p, NOFS_SECTOR_SIZE)}}
         })

\* a get_contents that skips nothing and ends the content at the first 0xFF
get_contents_raw(m, valid, p0) == GcLoop(m, GcSeek(p0), FILL, <<>>, 0)

\* get_contents on medium m, entered with the handle at position p0:
\* the bytes returned, sectors_read and the position afterwards; raised when
\* the read that skips the header raises IOError (it is outside the try)
get_contents(m, valid, p0) ==
    LET p1 == GcSeek(p0) IN
    IF valid /\ ReadFails(m, p1, HeaderSkip)
    THEN [ret |-> <<>>, sr |-> 0, p |-> p1, raised |-> TRUE]
    ELSE GcLoop(m,
                IF valid THEN p1 + Len(ReadData(m, p1, HeaderSkip)) ELSE p1,
                Terminal(valid), <<>>, 0)

\* an erase that fills with 0x00, the other fill convention
FillRestZero == Rep(NUL, NOFS_SECTOR_SIZE - 1)

\* _erase_sectors: chr(0xFF) * (NOFS_SECTOR_SIZE - 1)
FillRest == Rep(FILL, NOFS_SECTOR_SIZE - 1)

\* _erase_sectors: "return count <= 0"
EraseResult(count) == count <= 0

\* _erase_sectors: the loop "while not eof", entered at position p;
\* done counts the sectors written in full, calls the write calls issued
RECURSIVE EsLoop(_, _, _, _, _)
EsLoop(m, p, count, done, calls) ==
    Val({
    LET c2 == IF count >= 0 THEN count - 1 ELSE count
    IN IF ~w1.ok
       THEN [m |-> w1.m, count |-> count, done |-> done, calls |-> calls + 1,
             p |-> w1.p]
       ELSE Val({
            IF ~w2.ok
            THEN [m |-> w2.m, count |-> count, done |-> done,
                  calls |-> calls + 2, p |-> w2.p]
            ELSE IF count >= 0 /\ c2 = 0
            THEN [m |-> w2.m, count |-> c2, done |-> done + 1,
                  calls |-> calls + 2, p |-> w2.p]
            ELSE EsLoop(w2.m, w2.p, c2, done + 1, calls + 2)
            : w2 \in {Write(w1.m, w1.p, FillRest)} })
    : w1 \in {Write(m, p, <<NOFS_TERMINAL>>)} })

\* _erase_sectors(count, start)
erase_sectors(m, count, start) ==
    Val({[m |-> r.m, ok |-> EraseResult(r.count), done |-> r.done,
          calls |-> r.calls, p |-> r.p]
         : r \in {EsLoop(m, start * NOFS_SECTOR_SIZE, count, 0, 0)}})

\* _write_header: the sector written at offset 0
FirstSector ==
    NOFS_HEADER \o <<NOFS_TERMINAL>>
        \o Rep(FILL, NOFS_SECTOR_SIZE - Len(NOFS_HEADER) - 1)

\* a _write_header that does not rewind: it writes where the handle is
HeaderSeekStay(p) == p

\* _write_header: where the header is written when the handle is at p
HeaderSeek(p) == 0

\* _write_header, entered with the handle at position p; not ok: IOError
write_header(m, p) == Write(m, HeaderSeek(p), FirstSector)

\* an erase that never writes the header back
HeaderRewriteNever(ok, valid) == FALSE

\* erase: "if result and self.valid_nofs", the header is written back
HeaderRewrite(ok, valid) == ok /\ valid

\* an erase without its safety gate
ErasePermittedAlways(valid, force) == TRUE

\* erase: the safety gate "valid_nofs or _force_operations"
ErasePermitted(valid, force) == valid \/ force

\* an erase that always sweeps through the contents first
EraseScansAlways(sr, complete) == TRUE

\* erase: "if self.sectors_read == None and not complete", get_contents runs
EraseScans(sr, complete) == sr = None /\ ~complete

\* erase: the sector at which the run starts (the default of start)
EraseStart == 0

\* erase: the count handed to _erase_sectors
EraseCount(complete, sr) == IF complete THEN -1 ELSE sr

\* an initialize_nofs that does not look at valid_nofs
InitPermittedForced(valid, force) == force

\* initialize_nofs: the two refusals
InitPermitted(valid, force) == ~valid /\ force

\* initialize_nofs: _erase_sectors(4, 1)
InitCount == 4

InitStart == 1

\* -------------------------------------------------------- initial media

Hello == <<104, 101, 108, 108, 111>>

\* bytes that fill a medium up to the next sector boundary
PadTo(m, b) ==
    m \o Rep(b, (NOFS_SECTOR_SIZE - (Len(m) % NOFS_SECTOR_SIZE)) % NOFS_SECTOR_SIZE)

\* all sequences of at most n bytes drawn from the set B
RECURSIVE Pieces(_, _)
Pieces(B, n) ==
    IF n = 0 THEN {<<>>}
    ELSE LET shorter == Pieces(B, n - 1)
         IN shorter \cup {q \o <<b>> : q \in shorter, b \in B}

\* payloads: every short one of "A" and 0xFF bytes, "hello", and one that
\* crosses a sector
Payloads ==
    Pieces({65, FILL}, MaxPiece)
        \cup {Hello, Rep(65, NOFS_SECTOR_SIZE + MaxPiece)}

\* what follows the payload: nothing, or an end byte and trailing bytes
Trails ==
    {<<>>, <<NOFS_TERMINAL>>, <<NOFS_TERMINAL, 66, NOFS_TERMINAL, NUL>>,
     <<NUL, 66>>}

\* what precedes the payload: a header sector as _write_header leaves it,
\* the bare NOFS_HEADER (the payload was written over the header's terminal
\* byte), or nothing (no NoFS)
Heads == {FirstSector, NOFS_HEADER, <<>>}

\* files: any length
Files ==
    {m \in {h \o q \o t : h \in Heads, q \in Payloads, t \in Trails} :
        Len(m) <= MaxSectors * NOFS_SECTOR_SIZE}

\* block devices: whole sectors, the rest of the last one being 0xFF
Disks == {PadTo(m, FILL) : m \in Files \ {<<>>}}

\* the sectors a medium has
SectorsOf(m) == {x \in 0..(MaxSectors - 1) : x * NOFS_SECTOR_SIZE < Len(m)}

\* a medium with its capacity and its bad sectors: a file on a volume with
\* room for MaxSectors sectors or with no room left, or a block device, which
\* cannot grow and may have one bad sector, for reads or for writes
InitialDevices ==
    {<<m, MaxSectors * NOFS_SECTOR_SIZE, {}, {}>> : m \in Files}
    \cup {<<m, Len(PadTo(m, FILL)), {}, {}>> : m \in Files}
    \cup {<<m, Len(m), {}, {}>> : m \in Disks}
    \cup UNION {{<<m, Len(m), {b}, {}>> : b \in SectorsOf(m)} : m \in Disks}
    \cup UNION {{<<m, Len(m), {}, {b}>> : b \in SectorsOf(m)} : m \in Disks}

\* ------------------------------------------------------------- call record

\* the latest call was an initialize_nofs that returned True
Initialized ==
    last.op = "initialize_nofs" /\ last.outcome = "returned" /\ last.retBool

\* the latest call constructed an instance right after such a call
Reopened == last.op = "__init__" /\ last.outcome = "returned" /\ last.afterInit

\* the latest call was an erase of a valid NoFS that returned True
Erased ==
    /\ last.op = "erase" /\ last.outcome = "returned" /\ last.retBool
    /\ last.valid

\* the latest call constructed an instance right after such a call
ReopenedErased ==
    last.op = "__init__" /\ last.outcome = "returned" /\ last.afterErase

\* the record of a call that touched nothing, taken in the current state
Call(op) ==
    [op |-> op, complete |-> FALSE, valid |-> valid_nofs,
     force |-> force_operations, sr0 |-> sectors_read, p0 |-> pos,
     pre |-> medium, outcome |-> "returned", retBytes |-> <<>>,
     retBool |-> FALSE, seeks |-> 0, writes |-> 0, scanned |-> FALSE,
     fillRan |-> FALSE, fillStart |-> 0, fillCount |-> 0, fillDone |-> 0,
     headerRan |-> FALSE, rerun |-> FALSE, prevBytes |-> <<>>, prevSr |-> 0,
     prevRaised |-> FALSE, afterInit |-> FALSE, afterErase |-> FALSE]

NotSeen == [has |-> FALSE, clean |-> FALSE, ret |-> <<>>, sr |-> 0, raised |-> FALSE]

\* main() before its first statement
NotStarted ==
    [pc |-> "start", create_disk |-> FALSE, erase_disk |-> FALSE,
     full_erase |-> FALSE, force |-> FALSE, input_device |-> FALSE,
     output_file |-> FALSE, device_contents |-> <<>>, written |-> FALSE]

\* ------------------------------------------------------------------ Init

\* Device(path): the constructor's defaults, force = False and a handle
\* that cannot write.  A sector may have gone bad since the probe.
Init ==
    /\ \E d \in InitialDevices :
          medium = d[1] /\ cap = d[2] /\ badRead = d[3] /\ badWrite = d[4]
    /\ permissions = "rb"
    /\ pos = 0
    /\ valid_nofs = DetectNofs(medium)
    /\ force_operations = FALSE
    /\ sectors_read = None
    /\ seen = NotSeen
    /\ last = [op |-> "__init__", complete |-> FALSE, valid |-> valid_nofs,
               force |-> FALSE, sr0 |-> None, p0 |-> 0,
               pre |-> medium, outcome |-> "returned", retBytes |-> <<>>,
               retBool |-> FALSE, seeks |-> 1, writes |-> 0, scanned |-> FALSE,
               fillRan |-> FALSE, fillStart |-> 0, fillCount |-> 0,
               fillDone |-> 0, headerRan |-> FALSE, rerun |-> FALSE,
               prevBytes |-> <<>>, prevSr |-> 0, prevRaised |-> FALSE,
               afterInit |-> FALSE, afterErase |-> FALSE]
    /\ main = NotStarted

\* --------------------------------------------------------------- actions

\* Device(path, force, perm) on the same path: a new instance replaces the
\* current one; when the probe raises IOError no instance is constructed
DoInit(force, perm) ==
    IF ReadFails(medium, 0, Len(NOFS_SIGNATURE))
    THEN /\ last' = [Call("__init__") EXCEPT !.outcome = "raised",
                        !.afterInit = Initialized, !.afterErase = Erased]
         /\ UNCHANGED <<medium, cap, badRead, badWrite, permissions, pos,
                        valid_nofs, force_operations, sectors_read, seen>>
    ELSE /\ permissions' = perm
         /\ valid_nofs' = DetectNofs(medium)
         /\ pos' = 0
         /\ force_operations' = force
         /\ sectors_read' = None
         /\ seen' = NotSeen
         /\ last' = [Call("__init__") EXCEPT !.valid = DetectNofs(medium),
                        !.force = force, !.sr0 = None, !.p0 = 0, !.seeks = 1,
                        !.afterInit = Initialized, !.afterErase = Erased]
         /\ UNCHANGED <<medium, cap, badRead, badWrite>>

\* get_contents()
DoGetContents ==
    \E gc \in {get_contents(medium, valid_nofs, pos)} :
    /\ sectors_read' = gc.sr
    /\ pos' = gc.p
    /\ seen' = [has |-> TRUE, clean |-> TRUE, ret |-> gc.ret, sr |-> gc.sr,
                raised |-> gc.raised]
    /\ last' = [Call("get_contents") EXCEPT
                    !.outcome = IF gc.raised THEN "raised" ELSE "returned",
                    !.retBytes = gc.ret, !.seeks = 1, !.scanned = TRUE,
                    !.rerun = seen.has /\ seen.clean,
                    !.prevBytes = seen.ret, !.prevSr = seen.sr,
                    !.prevRaised = seen.raised, !.afterInit = Reopened,
                    !.afterErase = ReopenedErased]
    /\ UNCHANGED <<medium, cap, badRead, badWrite, permissions, valid_nofs,
                   force_operations>>

\* erase(complete)
DoErase(complete) ==
    IF ~ErasePermitted(valid_nofs, force_operations)
    THEN /\ last' = [Call("erase") EXCEPT !.complete = complete]
         /\ UNCHANGED <<medium, cap, badRead, badWrite, permissions, pos,
                        valid_nofs, force_operations, sectors_read, seen>>
    ELSE
    \E gc \in {get_contents(medium, valid_nofs, pos)} :
    \E es \in {erase_sectors(medium,
                   EraseCount(complete,
                       IF EraseScans(sectors_read, complete)
                       THEN gc.sr ELSE sectors_read),
                   EraseStart)} :
    \E wh \in {write_header(es.m, es.p)} :
    LET scan  == EraseScans(sectors_read, complete)
        sr1   == IF scan THEN gc.sr ELSE sectors_read
        count == EraseCount(complete, sr1)
        hdr   == HeaderRewrite(es.ok, valid_nofs)
        seen1 == IF scan
                 THEN [has |-> TRUE, clean |-> TRUE, ret |-> gc.ret,
                       sr |-> gc.sr, raised |-> gc.raised]
                 ELSE seen
    IN IF scan /\ gc.raised
       THEN /\ sectors_read' = gc.sr
            /\ pos' = gc.p
            /\ seen' = seen1
            /\ last' = [Call("erase") EXCEPT !.complete = complete,
                           !.outcome = "raised", !.seeks = 1, !.scanned = TRUE]
            /\ UNCHANGED <<medium, cap, badRead, badWrite, permissions,
                           valid_nofs, force_operations>>
       ELSE /\ sectors_read' = sr1
            /\ medium' = IF hdr THEN wh.m ELSE es.m
            /\ pos' = IF hdr THEN wh.p ELSE es.p
            /\ seen' = [seen1 EXCEPT !.clean = FALSE]
            /\ last' = [Call("erase") EXCEPT !.complete = complete,
                           !.outcome = IF hdr /\ ~wh.ok THEN "raised"
                                       ELSE "returned",
                           !.retBool = es.ok,
                           !.seeks = (IF scan THEN 1 ELSE 0) + 1
                                       + (IF hdr THEN 1 ELSE 0),
                           !.writes = es.calls + (IF hdr THEN 1 ELSE 0),
                           !.scanned = scan, !.fillRan = TRUE,
                           !.fillStart = EraseStart * NOFS_SECTOR_SIZE,
                           !.fillCount = count, !.fillDone = es.done,
                           !.headerRan = hdr]
            /\ UNCHANGED <<cap, badRead, badWrite, permissions, valid_nofs,
                           force_operations>>

\* initialize_nofs()
DoInitializeNofs ==
    IF ~InitPermitted(valid_nofs, force_operations)
    THEN /\ last' = Call("initialize_nofs")
         /\ UNCHANGED <<medium, cap, badRead, badWrite, permissions, pos,
                        valid_nofs, force_operations, sectors_read, seen>>
    ELSE
    \E es \in {erase_sectors(medium, InitCount, InitStart)} :
    \E wh \in {write_header(es.m, es.p)} :
       /\ medium' = wh.m
       /\ pos' = wh.p
       /\ seen' = [seen EXCEPT !.clean = FALSE]
       /\ last' = [Call("initialize_nofs") EXCEPT
                      !.outcome = IF wh.ok THEN "returned" ELSE "raised",
                      !.retBool = wh.ok, !.seeks = 2,
                      !.writes = es.calls + 1, !.fillRan = TRUE,
                      !.fillStart = InitStart * NOFS_SECTOR_SIZE,
                      !.fillCount = InitCount, !.fillDone = es.done,
                      !.headerRan = TRUE]
       /\ UNCHANGED <<cap, badRead, badWrite, permissions, valid_nofs,
                      force_operations, sectors_read>>

\* the calls of a program that uses the class directly

Construct(force, perm) == DoInit(force, perm) /\ UNCHANGED main

GetContents == DoGetContents /\ UNCHANGED main

Erase(complete) == DoErase(complete) /\ UNCHANGED main

InitializeNofs == DoInitializeNofs /\ UNCHANGED main

Next ==
    \/ \E force \in BOOLEAN, perm \in {"rb", "rb+"} : Construct(force, perm)
    \/ GetContents
    \/ \E complete \in BOOLEAN : Erase(complete)
    \/ InitializeNofs

Spec == Init /\ [][Next]_vars

\* ------------------------------------------------------------------ main

\* main: the "trivial parameter errors", each ends in parser.error
UsageError(c, e, E, f, i, o) ==
    \/ e /\ E
    \/ c /\ o
    \/ c /\ (e \/ E)
    \/ c /\ i /\ ~f

\* a main that always opens the device read-only
MainPermissionsReadOnly(e, E) == "rb"

\* main: permissions = "rb+" if options.erase_disk or options.full_erase
\* else "rb"
MainPermissions(e, E) == IF e \/ E THEN "rb+" ELSE "rb"

\* main: Device(devices[0], True, "rb+") on the create path
CreateForce == TRUE

CreatePermissions == "rb+"

\* the instance, the handle and the medium
device == <<medium, cap, badRead, badWrite, permissions, pos, valid_nofs,
            force_operations, sectors_read, seen>>

\* main where it stands after a Device call that may have raised IOError
After(raisedPc, returnedPc) ==
    [main EXCEPT !.pc = IF last'.outcome = "raised" THEN raisedPc
                        ELSE returnedPc]

\* parser.parse_args() and the parameter checks, for the options -c, -e, -E,
\* -f, -i and -o
MainParse(c, e, E, f, i, o) ==
    /\ main.pc = "start"
    /\ main' = [main EXCEPT
                   !.pc = IF UsageError(c, e, E, f, i, o) THEN "usage"
                          ELSE IF c THEN "create" ELSE "select",
                   !.create_disk = c, !.erase_disk = e, !.full_erase = E,
                   !.force = f, !.input_device = i, !.output_file = o]
    /\ UNCHANGED <<device, last>>

\* the create path up to the Device constructor: n is the number of devices
\* get_removable_devices found (0 also when it exits)
MainCreate(n) ==
    /\ main.pc = "create"
    /\ IF (IF main.input_device THEN 1 ELSE n) # 1
       THEN /\ main' = [main EXCEPT !.pc = "exit"]
            /\ UNCHANGED <<device, last>>
       ELSE /\ DoInit(CreateForce, CreatePermissions)
            /\ main' = After("crashed", "initialize")

\* the create path: .initialize_nofs() and sys.exit(0)
MainInitialize ==
    /\ main.pc = "initialize"
    /\ DoInitializeNofs
    /\ main' = After("crashed", "exit")

\* "select input device": the device given with -i, or the search through
\* the possible devices, among which the medium is found or not
MainSelect(found) ==
    /\ main.pc = "select"
    /\ IF ~main.input_device /\ ~found
       THEN /\ main' = [main EXCEPT !.pc = "exit"]
            /\ UNCHANGED <<device, last>>
       ELSE /\ DoInit(main.force,
                      MainPermissions(main.erase_disk, main.full_erase))
            /\ main' = IF main.input_device
                       THEN After("crashed", "read")
                       ELSE After("exit",
                                  IF valid_nofs' THEN "read" ELSE "exit")

\* device_contents = device.get_contents()
MainRead ==
    /\ main.pc = "read"
    /\ DoGetContents
    /\ main' = [After("crashed",
                      IF main.erase_disk \/ main.full_erase
                      THEN "erase" ELSE "output")
                   EXCEPT !.device_contents = last'.retBytes]

\* device.erase(options.full_erase)
MainErase ==
    /\ main.pc = "erase"
    /\ DoErase(main.full_erase)
    /\ main' = After("crashed", "output")

\* the contents go to the output, unless the device was erased and no
\* output file was given
MainOutput ==
    /\ main.pc = "output"
    /\ main' = [main EXCEPT !.pc = "exit",
                   !.written = (main.erase_disk \/ main.full_erase)
                                   => main.output_file]
    /\ UNCHANGED <<device, last>>

MainNext ==
    \/ \E c, e, E, f, i, o \in BOOLEAN : MainParse(c, e, E, f, i, o)
    \/ \E n \in 0..2 : MainCreate(n)
    \/ MainInitialize
    \/ \E found \in BOOLEAN : MainSelect(found)
    \/ MainRead
    \/ MainErase
    \/ MainOutput

MainSpec == Init /\ [][MainNext]_vars

\* ------------------------------------------------------------ properties

\* the on-disk format as the specification gives it, written out here
\* independently of the operators that model the code

\* an erased sector: 0x03 followed by 511 bytes of 0xFF
SpecErased == <<3>> \o Rep(255, 511)

\* the Header: "k621.de", 4 zero bytes, 0x03, 0xFF up to 512 bytes
SpecHeader ==
    <<107, 54, 50, 49, 46, 100, 101, 0, 0, 0, 0, 3>> \o Rep(255, 500)

\* sector k of m, read in isolation
SectorAt(m, k) == Slice(m, k * 512, (k + 1) * 512)

\* the number of sectors m has, a short last one included
SectorCount(m) == (Len(m) + 511) \div 512

\* C1: erase(complete), for either value of complete and whatever ran before,
\* on a Device with valid_nofs = false and force = false returns False and
\* issues no seek and no write: medium, handle position and sectors_read are
\* what they were.
C1_EraseGate ==
    (last.op = "erase" /\ ~last.valid /\ ~last.force) =>
        /\ last.outcome = "returned"
        /\ last.retBool = FALSE
        /\ last.seeks = 0
        /\ last.writes = 0
        /\ ~last.scanned /\ ~last.fillRan /\ ~last.headerRan
        /\ medium = last.pre
        /\ pos = last.p0
        /\ sectors_read = last.sr0

\* a refused complete erase on a writable handle, after a get_contents call
\* moved the handle and set sectors_read
C1_Witness ==
    /\ last.op = "erase" /\ ~last.valid /\ ~last.force /\ last.complete
    /\ permissions = "rb+"
    /\ last.sr0 # None /\ last.p0 > 0
    /\ Len(medium) > 0

\* C2: whenever erase(complete) returns False, no write has been performed:
\* the medium is what it was before the call.
C2_FalseMeansUntouched ==
    (last.op = "erase" /\ last.outcome = "returned" /\ ~last.retBool) =>
        medium = last.pre

\* the medium is the Header sector, then a payload without 0x03, then 0x03
HeaderPayloadTerminal(m) ==
    /\ SectorAt(m, 0) = SpecHeader
    /\ In(3, Slice(m, 512, Len(m)))

\* the payload P of such a medium
PayloadOf(m) ==
    LET rest == Slice(m, 512, Len(m)) IN Slice(rest, 0, Find(rest, 3))

\* C3: on a valid NoFS device whose medium is the Header sector, a payload P
\* without 0x03, one 0x03 byte and any trailing bytes, get_contents()
\* returns exactly P.
C3_TerminalTruncation ==
    (/\ last.op = "get_contents" /\ last.valid
     /\ HeaderPayloadTerminal(last.pre)
     /\ badRead = {}) =>
        /\ last.outcome = "returned"
        /\ last.retBytes = PayloadOf(last.pre)

\* Header + "hello" + 0x03 + 0xFF * 506
HelloMedium == SpecHeader \o <<104, 101, 108, 108, 111, 3>> \o Rep(255, 506)

\* C4: get_contents() consumes exactly the header, its terminal byte
\* included, before it scans: on the medium Header + "hello" + 0x03 +
\* 0xFF * 506 it returns "hello" with sectors_read = 1.
C4_HelloScenario ==
    (/\ last.op = "get_contents" /\ last.valid
     /\ last.pre = HelloMedium
     /\ badRead = {}) =>
        /\ last.outcome = "returned"
        /\ last.retBytes = <<104, 101, 108, 108, 111>>
        /\ sectors_read = 1

\* C5: get_contents() writes nothing, and a get_contents() call that follows
\* an earlier one of the same instance with no write call issued in between
\* has the same outcome: the same bytes and the same sectors_read, wherever
\* the handle stood and whatever sectors_read was.
C5_IdempotentRead ==
    (last.op = "get_contents") =>
        /\ last.writes = 0
        /\ medium = last.pre
        /\ last.rerun =>
              /\ last.retBytes = last.prevBytes
              /\ sectors_read = last.prevSr
              /\ (last.outcome = "raised") = last.prevRaised

\* a second read of a content of two sectors or more, entered with the
\* handle away from offset 0
C5_Witness ==
    /\ last.op = "get_contents" /\ last.rerun
    /\ last.outcome = "returned"
    /\ last.p0 > 0
    /\ sectors_read >= 2
    /\ Len(last.retBytes) > 512

\* the handle can write the whole of sector 0
CanWriteHeader == permissions = "rb+" /\ 0 \notin badWrite /\ cap >= 512

\* C6: initialize_nofs() on a Device with valid_nofs = false and force = true
\* whose handle can write sector 0 returns True; a Device constructed next on
\* the same path has valid_nofs = true, and its get_contents() returns the
\* empty string, whatever the medium held before.
C6_FormatRoundTrip ==
    /\ (/\ last.op = "initialize_nofs" /\ ~last.valid /\ last.force
        /\ CanWriteHeader) =>
           (last.outcome = "returned" /\ last.retBool)
    /\ Reopened => valid_nofs
    /\ (last.op = "get_contents" /\ last.afterInit) =>
           (valid_nofs /\ last.outcome = "returned" /\ last.retBytes = <<>>)

\* get_contents() on the instance constructed after a successful
\* initialize_nofs(), on a medium of more than one sector
C6_Witness ==
    /\ last.op = "get_contents" /\ last.afterInit
    /\ Len(medium) > 512

\* C7: initialize_nofs() on an instance whose valid_nofs is true or whose
\* force is false returns False, without raising, and issues no write: the
\* medium is byte for byte what it was.
C7_InitializeRefuses ==
    (last.op = "initialize_nofs" /\ (last.valid \/ ~last.force)) =>
        /\ last.outcome = "returned"
        /\ last.retBool = FALSE
        /\ last.writes = 0
        /\ medium = last.pre

\* a refusal on a formatted medium, with force set and a writable handle
C7_Witness ==
    /\ last.op = "initialize_nofs" /\ last.valid /\ last.force
    /\ permissions = "rb+"
    /\ badWrite = {}

\* C8 as stated: after erase(complete=True) has run on a permitted device,
\* every sector of the medium is 0x03 followed by 511 bytes of 0xFF (stated
\* here for the runs in which no write fails before the end of the medium).
C8_EveryErasedSector ==
    (/\ last.op = "erase" /\ last.complete /\ (last.valid \/ last.force)
     /\ last.outcome = "returned"
     /\ permissions = "rb+" /\ badWrite = {}) =>
        \A k \in 0..(SectorCount(medium) - 1) : SectorAt(medium, k) = SpecErased

\* C8 as amended: after erase(complete=True) has run on a permitted device,
\* every sector from offset 0 up to the first write that failed is 0x03
\* followed by 511 bytes of 0xFF, except sector 0 of a valid_nofs device,
\* which holds the Header; when no write fails before the capacity of the
\* medium is reached, these are all the sectors of the medium.
C8_ErasedSectorsButHeader ==
    (last.op = "erase" /\ last.complete /\ (last.valid \/ last.force)) =>
        /\ \A k \in 0..(last.fillDone - 1) :
              SectorAt(medium, k) =
                  IF k = 0 /\ last.valid THEN SpecHeader ELSE SpecErased
        /\ (permissions = "rb+" /\ badWrite = {}) =>
              /\ last.outcome = "returned"
              /\ last.fillDone * 512 = cap
              /\ Len(medium) = cap

\* a complete erase of a formatted medium of two sectors or more
C8_Witness ==
    /\ last.op = "erase" /\ last.complete /\ last.valid
    /\ last.outcome = "returned"
    /\ last.fillDone >= 2
    /\ medium # last.pre

\* C9: erase(complete) returns True only if the full requested run was
\* written: every sector from offset 0 to the end of the medium for a
\* complete erase, sectors_read sectors otherwise (stated here for handles
\* opened for writing).
C9_TrueMeansFullRun ==
    (/\ last.op = "erase" /\ last.outcome = "returned" /\ last.retBool
     /\ permissions = "rb+") =>
        IF last.complete
        THEN last.fillDone >= SectorCount(last.pre)
        ELSE last.fillDone = sectors_read

\* C10: a successful erase(complete=False) on a permitted device overwrites
\* exactly sectors_read sectors starting at the payload offset (after the
\* Header sector of a valid NoFS, at offset 0 otherwise) and leaves every
\* byte outside that run and outside the Header sector unchanged (stated
\* here, for a valid NoFS, for media that hold the Header sector and a
\* non-empty payload ended by 0x03).
C10_PartialEraseScope ==
    (/\ last.op = "erase" /\ ~last.complete /\ (last.valid \/ last.force)
     /\ last.outcome = "returned" /\ last.retBool
     /\ last.valid =>
           (HeaderPayloadTerminal(last.pre) /\ PayloadOf(last.pre) # <<>>)) =>
        LET off == IF last.valid THEN 512 ELSE 0
            n   == sectors_read
        IN /\ last.fillStart = off
           /\ last.fillDone = n
           /\ \A i \in 1..Len(last.pre) :
                 (i > 512 /\ (i <= off \/ i > off + n * 512)) =>
                     (i <= Len(medium) /\ medium[i] = last.pre[i])

\* C11: after erase(complete), for either value of complete, returns True on
\* a Device with valid_nofs = true, sector 0 of the medium is exactly the
\* Header; a Device constructed next on the same path has valid_nofs = true,
\* and its get_contents() returns the empty string.
C11_EraseKeepsFormat ==
    /\ Erased => SectorAt(medium, 0) = SpecHeader
    /\ ReopenedErased => valid_nofs
    /\ (last.op = "get_contents" /\ last.afterErase) =>
           (valid_nofs /\ last.outcome = "returned" /\ last.retBytes = <<>>)

\* get_contents() on the instance constructed after a successful erase of a
\* valid NoFS, on a medium of more than one sector
C11_Witness ==
    /\ last.op = "get_contents" /\ last.afterErase
    /\ last.outcome = "returned"
    /\ Len(medium) > 512

\* the medium begins with the 7 bytes "k621.de"
StartsWithSignature(m) == Slice(m, 0, 7) = <<107, 54, 50, 49, 46, 100, 101>>

\* C12: valid_nofs and force are fixed at construction: after __init__,
\* valid_nofs says whether the first 7 bytes of the medium are the signature
\* and force is the argument given; no get_contents, erase or
\* initialize_nofs call changes either, even when the call changes whether
\* the medium starts with the signature.
C12_FixedAtConstruction ==
    /\ (last.op = "__init__" /\ last.outcome = "returned") =>
           /\ valid_nofs = StartsWithSignature(medium)
           /\ force_operations = last.force
    /\ (last.op \in {"get_contents", "erase", "initialize_nofs"}) =>
           /\ valid_nofs = last.valid
           /\ force_operations = last.force

\* initialize_nofs() has put the signature on the medium and valid_nofs of
\* the instance is still false
C12_Witness ==
    /\ Initialized
    /\ ~StartsWithSignature(last.pre) /\ StartsWithSignature(medium)
    /\ ~valid_nofs /\ force_operations

\* C13: in every reachable state, also after an earlier successful
\* initialize_nofs() on the same instance, initialize_nofs() issues no write
\* when the medium begins with the signature (stated here for handles opened
\* for writing).
C13_NoReformat ==
    (/\ last.op = "initialize_nofs"
     /\ StartsWithSignature(last.pre)
     /\ permissions = "rb+") =>
        /\ last.writes = 0
        /\ ~last.retBool

\* the bytes of m before its first byte equal to 0x00 or 0xFF, all of m when
\* it has no such byte
UpToFillByte(m) ==
    LET fills == {i \in 1..Len(m) : m[i] \in {0, 255}} IN
    IF fills = {} THEN m
    ELSE Slice(m, 0, (CHOOSE i \in fills : \A j \in fills : i <= j) - 1)

\* C14: on a Device with valid_nofs = false, get_contents() returns the
\* bytes from offset 0 up to, and excluding, the first byte equal to 0x00 or
\* 0xFF, or up to the end of the medium when there is no such byte (stated
\* here for media without read faults).
C14_FirstFillByte ==
    (last.op = "get_contents" /\ ~last.valid /\ badRead = {}) =>
        /\ last.outcome = "returned"
        /\ last.retBytes = UpToFillByte(last.pre)

\* C15: an I/O failure inside get_contents, erase or initialize_nofs never
\* escapes as an exception: wherever a read or a write of the handle fails
\* (the read that skips the header, a sector read, the write of a fill
\* sector, the write of the header), the call returns (stated here for
\* handles opened for writing).
C15_NoEscape ==
    (/\ last.op \in {"get_contents", "erase", "initialize_nofs"}
     /\ permissions = "rb+") =>
        last.outcome = "returned"

\* C16: every call returns after a number of sector reads and writes that
\* the size of the medium bounds: get_contents reads at most one sector more
\* than the medium has (the empty read at its end), and the fill run of an
\* erase writes at most as many sectors as the medium has, also on a medium
\* that accepts writes at its end (stated here for get_contents and for the
\* erase runs with count -1 or 0 on a medium that is not empty).
C16_BoundedByMedium ==
    /\ (last.op = "get_contents") =>
           sectors_read <= SectorCount(last.pre) + 1
    /\ (/\ last.op = "erase" /\ last.fillRan
        /\ last.fillCount <= 0 /\ Len(last.pre) > 0) =>
           last.fillDone <= SectorCount(last.pre)

\* C17: when initialize_nofs() returns True, sector 0 holds exactly the
\* Header and each of the fill sectors it targets, sectors 1 to 4, holds
\* the erased pattern, 0x03 followed by 511 bytes of 0xFF; it does not return
\* True when one of these writes failed.
C17_InitializeResult ==
    Initialized =>
        /\ SectorAt(medium, 0) = SpecHeader
        /\ \A k \in 1..4 : SectorAt(medium, k) = SpecErased
        /\ last.fillDone = 4

\* the number of sector reads of a get_contents pass over m without read
\* faults: one per sector up to the sector that holds the end byte, or to
\* the short (possibly empty) read at the end of the medium
SectorReads(m, valid) ==
    LET rest == Slice(m, IF valid THEN 11 ELSE 0, Len(m))
        ends == {i \in 1..Len(rest) : rest[i] = IF valid THEN 3 ELSE 0}
        stop == IF ends = {} THEN Len(rest)
                ELSE (CHOOSE i \in ends : \A j \in ends : i <= j) - 1
    IN (stop \div 512) + 1

\* C18: sectors_read is None as long as get_contents has not run on the
\* instance, directly or through a partial erase: construction, a refused
\* erase, erase(complete=True) and initialize_nofs leave it as it is; once
\* get_contents has run it is a non-negative integer, the number of sector
\* reads of the most recent pass.
C18_SectorsRead ==
    /\ ~seen.has => sectors_read = None
    /\ seen.has => (sectors_read >= 0 /\ sectors_read = seen.sr)
    /\ (last.op = "__init__" /\ last.outcome = "returned") =>
           sectors_read = None
    /\ (last.op = "erase" /\ (last.complete \/ ~(last.valid \/ last.force))) =>
           sectors_read = last.sr0
    /\ (last.op = "initialize_nofs") => sectors_read = last.sr0
    /\ (last.op = "erase" /\ ~last.complete /\ last.sr0 # None) =>
           sectors_read = last.sr0
    /\ (last.scanned /\ last.outcome = "returned" /\ badRead = {}) =>
           sectors_read = SectorReads(last.pre, last.valid)

\* a partial erase on an instance that had not read yet: its get_contents
\* pass counted two sectors or more
C18_Witness ==
    /\ last.op = "erase" /\ ~last.complete /\ last.scanned
    /\ last.sr0 = None
    /\ last.outcome = "returned"
    /\ sectors_read >= 2

\* C19: on a valid NoFS device, whatever the medium holds, the 12 bytes of
\* the header (signature, 4 reserved bytes, terminal byte) are not a prefix
\* of the value get_contents() returns.
C19_HeaderInvisible ==
    (last.op = "get_contents" /\ last.valid) =>
        Slice(last.retBytes, 0, 12) #
            <<107, 54, 50, 49, 46, 100, 101, 0, 0, 0, 0, 3>>

\* get_contents() on a valid NoFS device returned 12 bytes or more
C19_Witness ==
    /\ last.op = "get_contents" /\ last.valid
    /\ last.outcome = "returned"
    /\ StartsWithSignature(last.pre)
    /\ Len(last.retBytes) >= 12

\* C20: in a run of main, for every combination of the options -c, -e, -E,
\* -f, -i and -o that passes the parameter checks, erase and initialize_nofs
\* are called only on a Device whose handle was opened with "rb+".
C20_DestructiveNeedsWrite ==
    (last.op \in {"erase", "initialize_nofs"}) => permissions = "rb+"

\* main has erased a device: the call wrote to the medium
C20_Witness ==
    /\ main.pc = "output"
    /\ last.op = "erase" /\ last.retBool
    /\ medium # last.pre

====
